---- MODULE Spec2Model ----
(***************************************************************************)
(* netlib_read_ipv6route() of apps/netutils/netlib/netlib_ipv6route.c:     *)
(* one call reads up to three lines of the procfs IPv6 routing table from  *)
(* a stream and converts the address on each into a field of the caller's  *)
(* route structure.  Characters are their ASCII codes; the line buffer is  *)
(* the 0-based array char line[PROCFS_LINELEN].                            *)
(***************************************************************************)
EXTENDS Integers, Sequences, FiniteSets, TLC

\* ------------------------------------------------------------ constants

ADDR_OFFSET == 15

\* a line buffer with room for the label area and a 39-character address but
\* not for the line terminator and the NUL
PROCFS_LINELEN_Short == ADDR_OFFSET + 39

PROCFS_LINELEN == 58

EINVAL == 22

\* sizeof(struct netlib_ipv6_route_s): three struct in6_addr of 16 bytes
SizeofRoute == 48

\* most lines a stream of the free-form family is built from
MaxLines == 2

\* ------------------------------------------------------------ characters

Ord ==
  [c \in {"0","1","2","3","4","5","6","7","8","9"} |->
     CASE c = "0" -> 48 [] c = "1" -> 49 [] c = "2" -> 50 [] c = "3" -> 51
       [] c = "4" -> 52 [] c = "5" -> 53 [] c = "6" -> 54 [] c = "7" -> 55
       [] c = "8" -> 56 [] c = "9" -> 57] @@
  [c \in {"a","b","c","d","e","f","g","k","m","n","o","r","s","t","u","x"} |->
     CASE c = "a" -> 97  [] c = "b" -> 98  [] c = "c" -> 99  [] c = "d" -> 100
       [] c = "e" -> 101 [] c = "f" -> 102 [] c = "g" -> 103 [] c = "k" -> 107
       [] c = "m" -> 109 [] c = "n" -> 110 [] c = "o" -> 111 [] c = "r" -> 114
       [] c = "s" -> 115 [] c = "t" -> 116 [] c = "u" -> 117 [] c = "x" -> 120] @@
  [c \in {" ", ".", ":", "\n"} |->
     CASE c = " " -> 32 [] c = "." -> 46 [] c = ":" -> 58 [] c = "\n" -> 10]

\* the ASCII codes of a tuple of one-character strings
Asc(s) == [i \in 1..Len(s) |-> Ord[s[i]]]

NUL == 0

NL == 10

IsDigit(c) == c >= 48 /\ c <= 57

IsHex(c) == IsDigit(c) \/ (c >= 97 /\ c <= 102) \/ (c >= 65 /\ c <= 70)

HexVal(c) == IF IsDigit(c) THEN c - 48 ELSE IF c >= 97 THEN c - 87 ELSE c - 55

\* ------------------------------------------------------------ input lines

\* the 15-column label areas of the documented layout (source lines 48-55)
TargetLabel(d) ==
  Asc(<<d, "0", "0", "0", ".", " ", "t", "a", "r", "g", "e", "t", ":", " ", " ">>)

NetmaskLabel ==
  Asc(<<" ", " ", " ", " ", " ", " ", "n", "e", "t", "m", "a", "s", "k", ":", " ">>)

RouterLabel ==
  Asc(<<" ", " ", " ", " ", " ", " ", "r", "o", "u", "t", "e", "r", ":", " ", " ">>)

\* the 12-column label areas of an entry whose index is the single digit 1
ShortTargetLabel == Asc(<<"1", ".", " ", "t", "a", "r", "g", "e", "t", ":", " ", " ">>)

ShortNetmaskLabel == Asc(<<" ", " ", " ", "n", "e", "t", "m", "a", "s", "k", ":", " ">>)

ShortRouterLabel == Asc(<<" ", " ", " ", "r", "o", "u", "t", "e", "r", ":", " ", " ">>)

\* address texts and, written out by hand, the eight 16-bit groups of each
Txt2001 == Asc(<<"2", "0", "0", "1", ":", "d", "b", "8", ":", ":">>)

Bin2001 == <<8193, 3512, 0, 0, 0, 0, 0, 0>>

TxtMask ==
  Asc(<<"f", "f", "f", "f", ":", "f", "f", "f", "f", ":", "f", "f", "f", "f", ":",
        "f", "f", "f", "f", ":", ":">>)

BinMask == <<65535, 65535, 65535, 65535, 0, 0, 0, 0>>

TxtFe80 == Asc(<<"f", "e", "8", "0", ":", ":", "1">>)

BinFe80 == <<65152, 0, 0, 0, 0, 0, 0, 1>>

TxtLoop == Asc(<<":", ":", "1">>)

BinLoop == <<0, 0, 0, 0, 0, 0, 0, 1>>

\* malformed address texts: g after a group, g inside a group, three colons
TxtTrailG == Asc(<<"f", "e", "8", "0", ":", ":", "1", "g">>)

TxtInnerG == Asc(<<"2", "0", "g", "1", ":", "d", "b", "8", ":", ":">>)

TxtColons == Asc(<<":", ":", ":">>)

\* a fully uncompressed address text: 39 characters
TxtFull ==
  Asc(<<"2", "0", "0", "1", ":", "0", "d", "b", "8", ":", "0", "0", "0", "0", ":",
        "0", "0", "0", "0", ":", "0", "0", "0", "0", ":", "0", "0", "0", "0", ":",
        "0", "0", "0", "0", ":", "0", "0", "0", "1">>)

BinFull == <<8193, 3512, 0, 0, 0, 0, 0, 1>>

\* an address text in the embedded IPv4 dotted form, ::ffff:1.2.3.4
TxtDotted == Asc(<<":", ":", "f", "f", "f", "f", ":", "1", ".", "2", ".", "3", ".", "4">>)

BinDotted == <<0, 0, 0, 0, 0, 65535, 258, 772>>

\* fifty hex digits: with a label, more than a line buffer holds
TxtLong == [i \in 1..50 |-> 102]

\* the binary value of a line whose address text is no IPv6 address
NoAddr == <<>>

\* a line of the table: its characters, the column its address text starts at
\* and the binary encoding of that address text
Row(label, txt, bin) ==
  [text |-> label \o txt \o <<NL>>, col |-> Len(label), addr |-> bin]

Menu ==
  << Row(TargetLabel("1"), Txt2001, Bin2001),
     Row(TargetLabel("0"), TxtLoop, BinLoop),
     Row(NetmaskLabel, TxtMask, BinMask),
     Row(RouterLabel, TxtFe80, BinFe80),
     Row(TargetLabel("x"), Txt2001, Bin2001),
     Row(TargetLabel("9"), TxtTrailG, NoAddr),
     Row(TargetLabel("1"), TxtInnerG, NoAddr),
     Row(TargetLabel("1"), TxtColons, NoAddr),
     Row(ShortTargetLabel, Txt2001, Bin2001),
     Row(ShortNetmaskLabel, TxtMask, BinMask),
     Row(ShortRouterLabel, TxtFe80, BinFe80),
     Row(NetmaskLabel, TxtFull, BinFull),
     Row(NetmaskLabel, TxtDotted, BinDotted),
     Row(<<32>>, <<>>, NoAddr),
     Row(TargetLabel("1"), TxtLong, NoAddr),
     [text |-> TargetLabel("1") \o TxtFe80, col |-> ADDR_OFFSET, addr |-> BinFe80] >>

MenuIds == 1..Len(Menu)

\* well-formed lines of the documented layout
GoodTargets == {1, 2}

GoodNetmasks == {3}

GoodRouters == {4}

\* the longest valid line, the dotted-form line, the line that ends before
\* the address column, the overlong line, the line without a terminator
FullLine == 12

DottedLine == 13

BlankLine == 14

LongLine == 15

OpenLine == 16

\* streams of up to MaxLines arbitrary lines; a line without a terminator can
\* only be the last one
FreeStreams ==
  {ls \in UNION {[1..n -> MenuIds] : n \in 0..MaxLines} :
     \A i \in 1..(Len(ls) - 1) : ls[i] # OpenLine}

\* the entry whose index is the single digit 1, labels aligned at column 12
ShortEntry == <<9, 10, 11>>

\* streams of one three-line group
OneGroupStreams ==
  {<<t, n, r>> : t \in GoodTargets, n \in GoodNetmasks, r \in GoodRouters}
    \cup {ShortEntry}

\* streams of two consecutive well-formed three-line groups
TwoGroupStreams ==
  {<<t1, n1, r1, t2, n2, r2>> :
     t1 \in GoodTargets, n1 \in GoodNetmasks, r1 \in GoodRouters,
     t2 \in GoodTargets, n2 \in GoodNetmasks, r2 \in GoodRouters}

\* the route structure's content before the caller's first call
StaleAddr == <<57005, 48879, 0, 0, 0, 0, 0, 0>>

StaleRoute == [prefix |-> StaleAddr, netmask |-> StaleAddr, router |-> StaleAddr]

\* values an uninitialized byte of the line buffer may hold: NUL, 'f'
GarbageFills == {0, 102}

\* ------------------------------------------------------------ state

VARIABLES
  lines,    \* the stream's content, as the Menu lines it is made of
  pos,      \* the stream's read cursor: characters consumed so far
  route,    \* the caller's struct netlib_ipv6_route_s
  called,   \* whether netlib_read_ipv6route() has returned at least once
  ret,      \* the value the last call returned
  exit,     \* the return statement the last call left by
  pos0,     \* the cursor when the last call was entered
  route0,   \* the caller's route when the last call was entered
  ioerr,    \* which fgets() of the last call met an I/O error (0: none)
  linebuf,  \* char line[PROCFS_LINELEN] as the last address extraction left it
  ext       \* the last address extraction: its stage, the index its scan
            \* stopped at, its token and the conversion's result

vars == <<lines, pos, route, called, ret, exit, pos0, route0, ioerr, linebuf, ext>>

RECURSIVE StreamOf(_)
\* the characters of a stream made of the given Menu lines
StreamOf(ls) ==
  IF ls = <<>> THEN <<>> ELSE Menu[Head(ls)].text \o StreamOf(Tail(ls))

stream == StreamOf(lines)

\* ------------------------------------------------------------ libc

\* how many characters fgets() takes at cursor p: up to max, through the
\* first newline, not beyond the end of the stream
LineLenAt(s, p, max) ==
  LET left == IF Len(s) - p < max THEN Len(s) - p ELSE max
      nls  == {i \in 1..left : s[p + i] = NL}
  IN IF nls = {} THEN left ELSE CHOOSE i \in nls : \A j \in nls : i <= j

\* fgets(buf, size, stream): NULL (ok = FALSE) on a read error or when no
\* character is left; otherwise the characters and a NUL are stored in buf,
\* whose other bytes keep what they held
\* (the singleton sets bind the buffer, the stream and the count once each)
fgets(buf, size, s, p, fail) ==
  LET Read(b, t, k) ==
        IF fail \/ k = 0
        THEN [ok |-> FALSE, line |-> b, pos |-> p]
        ELSE [ok |-> TRUE,
              line |-> [i \in DOMAIN b |->
                          IF i < k THEN t[p + 1 + i] ELSE IF i = k THEN NUL ELSE b[i]],
              pos |-> p + k]
  IN CHOOSE r \in {Read(b, t, k) :
                     b \in {buf}, t \in {s}, k \in {LineLenAt(s, p, size - 1)}} : TRUE

RECURSIVE SplitColons(_)
\* the fields of a text between its colons
SplitColons(t) ==
  IF \A i \in 1..Len(t) : t[i] # 58 THEN <<t>>
  ELSE LET c == CHOOSE i \in 1..Len(t) : t[i] = 58 /\ \A j \in 1..(i - 1) : t[j] # 58
       IN <<SubSeq(t, 1, c - 1)>> \o SplitColons(SubSeq(t, c + 1, Len(t)))

RECURSIVE HexGroup(_)
\* the value of one to four hexadecimal digits
HexGroup(f) ==
  IF f = <<>> THEN 0 ELSE 16 * HexGroup(SubSeq(f, 1, Len(f) - 1)) + HexVal(f[Len(f)])

\* the groups of a colon-separated run of hex fields (none for the empty text)
Groups(t) ==
  IF t = <<>> THEN <<>>
  ELSE LET fs == SplitColons(t) IN [i \in 1..Len(fs) |-> HexGroup(fs[i])]

\* inet_pton(AF_INET6, src, dst) on hex-and-colon text: 1 and the eight groups
\* of the address, or 0 when src is not an IPv6 address; dst is written on
\* success only
inet_pton(src) ==
  LET n      == Len(src)
      dc     == {i \in 1..(n - 1) : src[i] = 58 /\ src[i + 1] = 58}
      fields == SplitColons(src)
      full   == {i \in 1..Len(fields) : fields[i] # <<>>}
      wellformed ==
        /\ n > 0
        /\ \A i \in 1..n : IsHex(src[i]) \/ src[i] = 58
        /\ Cardinality(dc) <= 1
        /\ src[1] = 58 => 1 \in dc
        /\ src[n] = 58 => (n - 1) \in dc
        /\ \A i \in full : Len(fields[i]) <= 4
        /\ IF dc = {} THEN Cardinality(full) = 8 ELSE Cardinality(full) <= 7
  IN IF ~wellformed THEN [ret |-> 0, addr |-> NoAddr]
     ELSE IF dc = {} THEN [ret |-> 1, addr |-> Groups(src)]
     ELSE LET d    == CHOOSE i \in dc : TRUE
              head == Groups(SubSeq(src, 1, d - 1))
              tail == Groups(SubSeq(src, d + 2, n))
              gap  == [i \in 1..(8 - Len(head) - Len(tail)) |-> 0]
          IN [ret |-> 1, addr |-> head \o gap \o tail]

\* ------------------------------------------------------------ program

\* a variant of the scan condition that lets '.' continue an address
IsAddrCharOrDot(c) ==
  (c >= 48 /\ c <= 57) \/ (c >= 97 /\ c <= 102) \/ (c >= 65 /\ c <= 70) \/ c = 58 \/ c = 46

\* the characters that continue an address (source lines 75-78)
IsAddrChar(c) ==
  (c >= 48 /\ c <= 57) \/ (c >= 97 /\ c <= 102) \/ (c >= 65 /\ c <= 70) \/ c = 58

RECURSIVE ScanEnd(_, _)
\* the index the while loop of set_nul_terminator() stops at; a walk off the
\* end of the array is reported as the first index outside it
ScanEnd(line, i) ==
  IF i \in DOMAIN line /\ IsAddrChar(line[i]) THEN ScanEnd(line, i + 1) ELSE i

\* set_nul_terminator(&line[addr]): the buffer after the terminator write
set_nul_terminator(line, addr) ==
  LET e == ScanEnd(line, addr) IN
  IF e \in DOMAIN line THEN [line EXCEPT ![e] = NUL] ELSE line

RECURSIVE CString(_, _)
\* the C string that starts at line[i]
CString(line, i) ==
  IF i \notin DOMAIN line \/ line[i] = NUL THEN <<>>
  ELSE <<line[i]>> \o CString(line, i + 1)

\* a variant of the stage-1 check that compares with the character '9'
IndexMarkerRejectsChar9(c) == c < 48 \/ c > 57

\* the stage-1 check of source line 136: line[0] < '0' || line[0] > 9
IndexMarkerRejects(c) == c < 48 \/ c > 9

\* the stage-2 and stage-3 check of source lines 171 and 206: line[0] != ' '
ContinuationMarkerRejects(c) == c # 32

\* a variant of the end-of-file return that reports an error
EofReturnError == -EINVAL

\* the value returned when fgets() gives NULL (source lines 131, 166, 201)
EofReturn == 0

\* a variant of the extraction without the forced terminator of line 143
ConvertUncapped(line) ==
  LET cut  == set_nul_terminator(line, ADDR_OFFSET)
      tok  == CString(cut, ADDR_OFFSET)
      conv == inet_pton(tok)
  IN [line |-> cut, stop |-> ScanEnd(line, ADDR_OFFSET), tok |-> tok,
      ret |-> conv.ret, addr |-> conv.addr]

\* one stage after its marker check: the forced terminator, the address
\* extraction at ADDR_OFFSET and the conversion
Convert(line) ==
  LET capped == [line EXCEPT ![PROCFS_LINELEN - 1] = NUL]
      cut    == set_nul_terminator(capped, ADDR_OFFSET)
      tok    == CString(cut, ADDR_OFFSET)
      conv   == inet_pton(tok)
  IN [line |-> cut, stop |-> ScanEnd(capped, ADDR_OFFSET), tok |-> tok,
      ret |-> conv.ret, addr |-> conv.addr]

\* the outcome of a call: return value, return statement, cursor and route
Outcome(r, e, p, rt) == [ret |-> r, exit |-> e, pos |-> p, route |-> rt]

\* the route field stage k converts into
FieldOf == <<"prefix", "netmask", "router">>

\* the names of the return statements of stage k: fgets() gave NULL, the
\* marker check failed, inet_pton() returned a negative value, inet_pton()
\* returned 0
ExitOf ==
  [eof    |-> <<"eof1", "eof2", "eof3">>,
   marker |-> <<"marker1", "marker2", "marker3">>,
   pton   |-> <<"pton1", "pton2", "pton3">>,
   addr   |-> <<"addr1", "addr2", "addr3">>]

\* the marker check of stage k
MarkerRejects(k, c) ==
  IF k = 1 THEN IndexMarkerRejects(c) ELSE ContinuationMarkerRejects(c)

RECURSIVE Stages(_, _, _, _, _, _)
\* stages k..3 of netlib_read_ipv6route(): the line buffer holds buf, the
\* cursor is at p, the caller's route holds rt, io is the fgets() that fails
\* (the singleton sets bind the fetched line and its conversion once each)
Stages(k, buf, s, p, rt, io) ==
  LET Rest(f) ==
        CHOOSE o \in
          {IF c.ret < 0 THEN Outcome(c.ret, ExitOf.pton[k], f.pos, rt)
           ELSE IF c.ret = 0 THEN Outcome(-EINVAL, ExitOf.addr[k], f.pos, rt)
           ELSE IF k = 3
             THEN Outcome(SizeofRoute, "done", f.pos, [rt EXCEPT ![FieldOf[k]] = c.addr])
           ELSE Stages(k + 1, c.line, s, f.pos, [rt EXCEPT ![FieldOf[k]] = c.addr], io) :
             c \in {Convert(f.line)}} : TRUE
      Stage(f) ==
        IF ~f.ok THEN Outcome(EofReturn, ExitOf.eof[k], f.pos, rt)
        ELSE IF MarkerRejects(k, f.line[0])
          THEN Outcome(-EINVAL, ExitOf.marker[k], f.pos, rt)
        ELSE Rest(f)
  IN CHOOSE o \in {Stage(f) : f \in {fgets(buf, PROCFS_LINELEN, s, p, io = k)}} : TRUE

\* the body of netlib_read_ipv6route(stream, route), entered with the cursor
\* at p and the caller's route rt; io is the fgets() that fails (0: none) and
\* fill what the uninitialized line buffer holds
ReadRoute(s, p, rt, io, fill) ==
  Stages(1, [i \in 0..(PROCFS_LINELEN - 1) |-> fill], s, p, rt, io)

\* ------------------------------------------------------------ behaviour

Init ==
  /\ lines \in FreeStreams \cup OneGroupStreams \cup TwoGroupStreams
  /\ pos = 0
  /\ route = StaleRoute
  /\ called = FALSE
  /\ ret = 0
  /\ exit = "none"
  /\ pos0 = 0
  /\ route0 = StaleRoute
  /\ ioerr = 0
  /\ linebuf = [i \in 0..(PROCFS_LINELEN - 1) |-> NUL]
  /\ ext = [stage |-> 0, stop |-> ADDR_OFFSET, tok |-> <<>>, ret |-> 0, addr |-> NoAddr]

\* one call of netlib_read_ipv6route() by the caller
netlib_read_ipv6route ==
  \E io \in 0..3, fill \in GarbageFills :
  \E s \in {stream} :
  \E out \in {ReadRoute(s, pos, route, io, fill)} :
    /\ pos' = out.pos
    /\ route' = out.route
    /\ ret' = out.ret
    /\ exit' = out.exit
    /\ called' = TRUE
    /\ pos0' = pos
    /\ route0' = route
    /\ ioerr' = io
    /\ UNCHANGED <<lines, linebuf, ext>>

Next == netlib_read_ipv6route

Spec == Init /\ [][Next]_vars

\* the caller keeps calling: a call that can change the state is made
LiveSpec == Spec /\ WF_vars(Next)

\* the address extraction of one stage taken alone (source lines 141-150,
\* 176-185, 211-220), applied to the line the stage's fgets() delivers: the
\* forced terminator, set_nul_terminator(&line[ADDR_OFFSET]) and inet_pton().
\* Stage 1 finds the buffer uninitialized, stages 2 and 3 find what the stage
\* before left in it.
extract_address ==
  \E fill \in GarbageFills :
    LET k  == (ext.stage % 3) + 1
        b0 == IF k = 1 THEN [i \in 0..(PROCFS_LINELEN - 1) |-> fill] ELSE linebuf
    IN \E s \in {stream} :
       \E f \in {fgets(b0, PROCFS_LINELEN, s, pos, FALSE)} :
       \E c \in {Convert(f.line)} :
       /\ f.ok
       /\ pos' = f.pos
       /\ pos0' = pos
       /\ linebuf' = c.line
       /\ ext' = [stage |-> k, stop |-> c.stop, tok |-> c.tok,
                  ret |-> c.ret, addr |-> c.addr]
       /\ UNCHANGED <<lines, route, called, ret, exit, route0, ioerr>>

ExtractNext == extract_address

ExtractSpec == Init /\ [][ExtractNext]_vars

TypeOK ==
  /\ pos \in 0..Len(stream)
  /\ ret \in {0, -EINVAL, SizeofRoute}
  /\ called \in BOOLEAN

\* ------------------------------------------------------------ vocabulary

\* the cursor position at which line k of the stream starts
Offset(k) == Len(StreamOf(SubSeq(lines, 1, k - 1)))

\* the line the last call was entered at (Len(lines) + 1: the end of the
\* stream; 0: the cursor was inside a line)
EntryLine ==
  IF \E k \in 1..(Len(lines) + 1) : Offset(k) = pos0
  THEN CHOOSE k \in 1..(Len(lines) + 1) : Offset(k) = pos0
  ELSE 0

\* line k carries a valid IPv6 address text that starts at column ADDR_OFFSET
HasAddress(k) ==
  /\ k \in 1..Len(lines)
  /\ Menu[lines[k]].addr # NoAddr
  /\ Menu[lines[k]].col = ADDR_OFFSET

FirstChar(k) == Menu[lines[k]].text[1]

\* line k is a well-formed target line / netmask or router line
GoodTarget(k) == HasAddress(k) /\ IsDigit(FirstChar(k))

GoodContinuation(k) == HasAddress(k) /\ FirstChar(k) = 32

\* a well-formed three-line group starts at line k
GoodGroup(k) == GoodTarget(k) /\ GoodContinuation(k + 1) /\ GoodContinuation(k + 2)

\* the binary encodings of the addresses on lines k, k+1 and k+2
RecordAt(k) ==
  [prefix  |-> Menu[lines[k]].addr,
   netmask |-> Menu[lines[k + 1]].addr,
   router  |-> Menu[lines[k + 2]].addr]

\* the last call returned and no read of it failed
Returned == called /\ ioerr = 0

\* ------------------------------------------------------------ claims

\* C1: for every well-formed three-line group, one call returns
\* sizeof(struct netlib_ipv6_route_s) and the route's prefix, netmask and
\* router are the binary encodings of the addresses on lines 1, 2 and 3.
C1_GoodGroupYieldsRecord ==
  (Returned /\ EntryLine # 0 /\ GoodGroup(EntryLine))
    => (ret = SizeofRoute /\ route = RecordAt(EntryLine))

\* C2: the stage-1 check rejects a line if and only if its first character
\* is not a decimal digit: a call that read a first line returns from the
\* stage-1 check exactly when that line's first character is outside '0'..'9'.
C2_IndexCheckRejectsExactlyNonDigits ==
  (Returned /\ exit # "eof1")
    => ((exit = "marker1" /\ ret = -EINVAL) <=> ~IsDigit(stream[pos0 + 1]))

C4_ExhaustedStreamReturnsZero ==
  (called /\ pos0 = Len(stream)) => (ret = 0 /\ exit = "eof1" /\ pos = pos0)

\* C4 witness: a call entered at the end of a stream whose lines earlier
\* calls consumed returned 0.
C4_CallAtEndOfStream ==
  called /\ ioerr = 0 /\ lines # <<>> /\ pos0 = Len(stream) /\ ret = 0

\* C5: if the stream ends after a well-formed target line, or after a
\* well-formed target and netmask line, the call entered at the target line
\* returns 0 (end of stream).
C5_ShortReadReturnsZero ==
  (/\ Returned
   /\ EntryLine # 0
   /\ GoodTarget(EntryLine)
   /\ \/ Len(lines) = EntryLine
      \/ Len(lines) = EntryLine + 1 /\ GoodContinuation(EntryLine + 1))
    => ret = 0

\* C6: after a well-formed target line, a second line whose first character
\* is not a space makes the call return -EINVAL from the stage-2 check with
\* exactly two lines read; after well-formed target and netmask lines, a third
\* line that does not start with a space makes it return -EINVAL from the
\* stage-3 check with exactly three lines read.
C6_NonSpaceContinuationRejected ==
  LET k == EntryLine IN
  /\ (/\ Returned /\ k # 0 /\ GoodTarget(k)
      /\ k + 1 <= Len(lines) /\ FirstChar(k + 1) # 32)
       => (ret = -EINVAL /\ exit = "marker2" /\ pos = Offset(k + 2))
  /\ (/\ Returned /\ k # 0 /\ GoodTarget(k) /\ GoodContinuation(k + 1)
      /\ k + 2 <= Len(lines) /\ FirstChar(k + 2) # 32)
       => (ret = -EINVAL /\ exit = "marker3" /\ pos = Offset(k + 3))

\* C7: a line that passes the stage-1 marker rule (first character a digit)
\* and whose address text at column ADDR_OFFSET is not an IPv6 address makes
\* the call return -EINVAL from the failed address conversion, never a Record.
C7_BadAddressTextRejected ==
  LET k == EntryLine IN
  (/\ Returned /\ k \in 1..Len(lines)
   /\ IsDigit(FirstChar(k))
   /\ Menu[lines[k]].col = ADDR_OFFSET
   /\ Menu[lines[k]].addr = NoAddr)
    => (ret = -EINVAL /\ exit = "addr1")

\* C8: on a stream of two consecutive well-formed groups the first call
\* returns the first group's Record and leaves the cursor at the second
\* group, and the call entered there returns the second group's Record, which
\* depends on the second group's lines only.
C8_TwoGroupsTwoRecords ==
  (Returned /\ lines \in TwoGroupStreams)
    => /\ pos0 = 0 =>
            (ret = SizeofRoute /\ route = RecordAt(1) /\ pos = Offset(4))
       /\ pos0 = Offset(4) =>
            (ret = SizeofRoute /\ route = RecordAt(4) /\ pos = Len(stream))

\* C9: for the entry whose index is the single digit 1 (target 2001:db8::,
\* netmask ffff:ffff:ffff:ffff::, router fe80::1, labels aligned) the call
\* returns the Record of exactly these three addresses.
C9_SingleDigitIndexEntry ==
  (Returned /\ lines = ShortEntry /\ pos0 = 0)
    => /\ ret = SizeofRoute
       /\ route = [prefix |-> Bin2001, netmask |-> BinMask, router |-> BinFe80]

\* C10: when the stream read fails with an I/O error while data is left, the
\* call returns a negated errno value, not the 0 of end of stream.
C10_ReadErrorIsNegative ==
  (called /\ ioerr = 1 /\ pos0 < Len(stream)) => ret < 0

\* C11: for any stream content (overlong lines, lines without a terminator,
\* lines shorter than the address offset) the scan of set_nul_terminator()
\* and its terminator write touch only indices ADDR_OFFSET..PROCFS_LINELEN-1
\* of the line buffer: the scan stops, and writes, inside that range.
C11_ScanStaysInBuffer ==
  ext.stage # 0 => ext.stop \in ADDR_OFFSET..(PROCFS_LINELEN - 1)

\* C11 witness: the line fetched ended before the address column and the scan
\* ran over bytes the fetch did not write until the forced terminator at
\* PROCFS_LINELEN-1 stopped it.
C11_StoppedByForcedTerminator ==
  ext.stage # 0 /\ pos - pos0 < ADDR_OFFSET /\ ext.stop = PROCFS_LINELEN - 1

\* the characters the last extraction's fgets() read from the stream
Fetched == SubSeq(stream, pos0 + 1, pos)

MaxFetch == 57

\* how many fgets() calls had returned a line when the call left by exit e
FetchesOf(e) ==
  CASE e \in {"none", "eof1"} -> 0
    [] e \in {"marker1", "pton1", "addr1", "eof2"} -> 1
    [] e \in {"marker2", "pton2", "addr2", "eof3"} -> 2
    [] e \in {"marker3", "pton3", "addr3", "done"} -> 3

\* the returns of a stage by error or by success, not by fgets() giving NULL
StageReturns ==
  {"marker1", "pton1", "addr1", "marker2", "pton2", "addr2",
   "marker3", "pton3", "addr3", "done"}

\* the cursor immediately after the k-th line terminator that follows cursor
\* p, or -1 when fewer than k terminators follow
AfterTerminator(p, k) ==
  LET nls == {q \in (p + 1)..Len(stream) : stream[q] = NL} IN
  IF Cardinality(nls) < k THEN -1
  ELSE CHOOSE q \in nls : Cardinality({r \in nls : r <= q}) = k

\* the cursor after one fetch at cursor p: after the next terminator, or after
\* MaxFetch characters, or at the end of the stream, whichever comes first
FetchEnd(p) ==
  IF p >= Len(stream) THEN p
  ELSE CHOOSE q \in (p + 1)..Len(stream) :
         /\ stream[q] = NL \/ q = p + MaxFetch \/ q = Len(stream)
         /\ \A r \in (p + 1)..(q - 1) : stream[r] # NL /\ r # p + MaxFetch

RECURSIVE AfterFetches(_, _)
\* the cursor after k fetches that start at cursor p
AfterFetches(p, k) == IF k = 0 THEN p ELSE AfterFetches(FetchEnd(p), k - 1)

\* C13 as stated: a call that ends at stage k by error or by success leaves
\* the cursor immediately after the k-th line terminator that follows its
\* position at call entry, whatever the lines' length.
C13_StageConsumesWholeLine ==
  (called /\ exit \in StageReturns) => pos = AfterTerminator(pos0, FetchesOf(exit))

\* C13 amended: every fetch consumes the characters through the next line
\* terminator only if these are at most MaxFetch; of a longer line it consumes
\* exactly MaxFetch characters and of an unterminated last line what is left.
\* A call leaves the cursor after as many such fetches as returned a line.
C13_StageConsumesBoundedLine ==
  called => pos = AfterFetches(pos0, FetchesOf(exit))

\* C13 witness: a call ended at stage 1 having consumed MaxFetch characters of
\* an overlong line, the cursor left inside that line.
C13_CursorInsideOverlongLine ==
  called /\ exit = "marker1" /\ pos = pos0 + MaxFetch /\ stream[pos] # NL

\* the extraction fetched Menu line m at a line start
Extracted(m) ==
  ext.stage # 0 /\ EntryLine \in 1..Len(lines) /\ lines[EntryLine] = m

\* the text of ::ffff:1.2.3.4 before its first '.', and that text's encoding
TxtDottedCut == Asc(<<":", ":", "f", "f", "f", "f", ":", "1">>)

BinDottedCut == <<0, 0, 0, 0, 0, 0, 65535, 1>>

C15_DrainTerminates ==
  /\ [][pos' >= pos /\ (ret' # 0 => pos' > pos)]_vars
  /\ <>(called /\ ret = 0)

\* C15 witness: calls that each returned an error consumed a stream of
\* several lines to its end, and the call after them returned 0.
C15_DrainedToEnd ==
  /\ called /\ ret = 0 /\ exit = "eof1" /\ ioerr = 0
  /\ Len(lines) >= 2 /\ pos = Len(stream)

\* C16: the line buffer holds the longest valid line: the 15-column label, a
\* fully written 39-character address and the newline are fetched in one
\* piece, the scan stops on the newline before the forced terminator at
\* index PROCFS_LINELEN-1, and the whole address is converted.
C16_LongestLineFits ==
  Extracted(FullLine) =>
    /\ pos = pos0 + ADDR_OFFSET + Len(TxtFull) + 1
    /\ stream[pos] = NL
    /\ ext.stop = ADDR_OFFSET + Len(TxtFull)
    /\ ext.stop < PROCFS_LINELEN - 1
    /\ ext.tok = TxtFull /\ ext.ret = 1 /\ ext.addr = BinFull

\* C16 witness: an extraction handled the line carrying the fully written
\* address, after an earlier line of the same stream.
C16_FullLineExtracted ==
  Extracted(FullLine) /\ pos0 > 0 /\ Len(ext.tok) = 39

====
